---- MODULE Spec2Model ----
(***************************************************************************)
(* MoodChain: the encrypted mood ledger and the sliding-window trend       *)
(* engine of contracts/MoodChain.sol, as a state machine over a totally    *)
(* ordered transaction log.                                                *)
(*                                                                         *)
(* A ciphertext (euint32) is a record [h |-> handle, v |-> plaintext]:     *)
(* the handle is what the contract stores, returns and grants access on;   *)
(* the plaintext is what a holder of a grant would decrypt. No operation   *)
(* of the contract reads v.                                                *)
(***************************************************************************)
EXTENDS Integers, Sequences, FiniteSets, TLC

VARIABLES
    now,              \* block.timestamp of the latest block
    userMoods,        \* mapping(address => MoodEntry[])
    encryptedTrends,  \* mapping(address => euint32)
    hasTrend,         \* mapping(address => bool)
    acl,              \* the FHE access-control list: {<<handle, grantee>>}
    events,           \* the events emitted by the latest transaction
    tx,               \* the latest transaction: function, msg.sender, outcome
    nonce,            \* per user, the number of client encryptions stored
    client            \* the client: the value it decrypted, the trend it shows

vars == <<now, userMoods, encryptedTrends, hasTrend, acl, events, tx, nonce, client>>
store == <<userMoods, encryptedTrends, hasTrend, acl>>

(***************************************************************************)
(* Principals and program constants.                                       *)
(***************************************************************************)
Users == {"alice", "bob"}
Self == "MoodChain"
OtherContract == "OtherContract"
Contracts == {Self, OtherContract}

DAY == 86400
WINDOW == 7
DOUBLE_WINDOW == 14
\* A uint32 is kept at its width as two 16-bit limbs <<hi, lo>>: 2^32 itself
\* is beyond the integers the model checker computes with.
LIMB == 65536

(***************************************************************************)
(* Bounds of the explored state space.                                     *)
(***************************************************************************)
MaxStores == 8
ApiMaxStores == 3
LedgerMaxStores == 4
LedgerMaxDay == 3
TrendMaxLen == 15
PrivacyMaxLen == 8
WindowMaxLen == 14
WindowMaxRestores == 2
PairMaxStores == 8
MapMaxDiff == 20
DayMaxStores == 4
HookMaxStores == 8
HookMaxSwitches == 1

(***************************************************************************)
(* The FHE library, as the contract uses it.                               *)
(***************************************************************************)
\* uint32 arithmetic: the value is hi * 2^16 + lo, all operations mod 2^32.
U32(n) == <<(n \div LIMB) % LIMB, n % LIMB>>

U32Add(x, y) ==
    LET lo == x[2] + y[2]
        carry == lo \div LIMB
    IN <<(x[1] + y[1] + carry) % LIMB, lo % LIMB>>

U32Sub(x, y) ==
    LET lo == x[2] - y[2]
        borrow == IF lo < 0 THEN 1 ELSE 0
        hi == x[1] - y[1] - borrow
    IN <<IF hi < 0 THEN hi + LIMB ELSE hi, IF lo < 0 THEN lo + LIMB ELSE lo>>

U32Less(x, y) == x[1] < y[1] \/ (x[1] = y[1] /\ x[2] < y[2])

NullCt == [h |-> <<"null">>, v |-> U32(0)]

FHE_asEuint32(c) == [h |-> <<"trivial", c>>, v |-> U32(c)]

FHE_add(a, b) == [h |-> <<"add", a.h, b.h>>, v |-> U32Add(a.v, b.v)]

\* A subtraction that stops at 0 instead of wrapping.
FHE_sub_Saturating(a, b) ==
    [h |-> <<"sub", a.h, b.h>>,
     v |-> IF U32Less(a.v, b.v) THEN U32(0) ELSE U32Sub(a.v, b.v)]

FHE_sub(a, b) == [h |-> <<"sub", a.h, b.h>>, v |-> U32Sub(a.v, b.v)]

\* One grant per grantee: a new grant replaces the old ones.
FHE_allow_Replace(list, ct, who) ==
    {g \in list : g[2] # who} \cup {<<ct.h, who>>}

FHE_allow(list, ct, who) == list \cup {<<ct.h, who>>}

\* fhevm.createEncryptedInput(contract, user).add32(v).encrypt(): a fresh
\* ciphertext, with a proof bound to the contract and the user.
CreateEncryptedInput(contract, user, k, v) ==
    [handle |-> [h |-> <<"input", user, k>>, v |-> U32(v)],
     inputProof |-> [h |-> <<"input", user, k>>, user |-> user, contract |-> contract]]

\* A proof taken from another encryption.
TamperedProof(enc) == [enc EXCEPT !.inputProof.h = <<"input", enc.inputProof.user, 0>>]

\* FHE.fromExternal succeeds iff the proof validates against the handle for
\* this caller and this contract.
ProofValid(handle, inputProof, sender) ==
    /\ inputProof.h = handle.h
    /\ inputProof.user = sender
    /\ inputProof.contract = Self

(***************************************************************************)
(* storeEncryptedMood: the day key and the upsert.                         *)
(***************************************************************************)
\* Rounds to the nearest start of day.
Today_Nearest(timestamp) == ((timestamp + DAY \div 2) \div DAY) * DAY

Today(timestamp) == (timestamp \div DAY) * DAY

\* Solidity indexes from 0.
At(moods, i) == moods[i + 1]

\* The scan of lines 45-51: the first index whose date is today, or
\* Len(moods) when there is none.
RECURSIVE FindDate(_, _, _)
FindDate(moods, today, i) ==
    IF i < Len(moods)
    THEN IF At(moods, i).date = today THEN i ELSE FindDate(moods, today, i + 1)
    ELSE Len(moods)

Upsert_AlwaysPush(moods, today, ct) ==
    Append(moods, [date |-> today, encryptedMood |-> ct])

Upsert_KeepOld(moods, today, ct) ==
    IF FindDate(moods, today, 0) < Len(moods)
    THEN moods
    ELSE Append(moods, [date |-> today, encryptedMood |-> ct])

\* Keeps the ledger in calendar order.
RECURSIVE InsertByDate(_, _)
InsertByDate(moods, entry) ==
    IF moods = <<>> \/ moods[Len(moods)].date < entry.date
    THEN Append(moods, entry)
    ELSE Append(InsertByDate(SubSeq(moods, 1, Len(moods) - 1), entry), moods[Len(moods)])

Upsert_Sorted(moods, today, ct) ==
    LET i == FindDate(moods, today, 0)
    IN IF i < Len(moods)
       THEN [moods EXCEPT ![i + 1].encryptedMood = ct]
       ELSE InsertByDate(moods, [date |-> today, encryptedMood |-> ct])

\* Puts the record of a new day at the head.
Upsert_Prepend(moods, today, ct) ==
    LET i == FindDate(moods, today, 0)
    IN IF i < Len(moods)
       THEN [moods EXCEPT ![i + 1].encryptedMood = ct]
       ELSE <<[date |-> today, encryptedMood |-> ct]>> \o moods

Upsert(moods, today, ct) ==
    LET i == FindDate(moods, today, 0)
        found == i < Len(moods)
    IN IF found
       THEN [moods EXCEPT ![i + 1].encryptedMood = ct]
       ELSE Append(moods, [date |-> today, encryptedMood |-> ct])

\* The events of the contract.
MoodStored(user, date) == [name |-> "MoodStored", user |-> user, date |-> date]

TrendUpdated(user) == [name |-> "TrendUpdated", user |-> user]

(***************************************************************************)
(* _updateTrend.                                                           *)
(***************************************************************************)
\* for (i = from; i > downTo; i--) sum = FHE.add(sum, moods[i - 1])
RECURSIVE SumDown(_, _, _, _)
SumDown(moods, i, downTo, sum) ==
    IF i > downTo
    THEN SumDown(moods, i - 1, downTo, FHE_add(sum, At(moods, i - 1).encryptedMood))
    ELSE sum

\* for (i = from; i < upTo; i++) sum = FHE.add(sum, moods[i])
RECURSIVE SumUp(_, _, _, _)
SumUp(moods, i, upTo, sum) ==
    IF i < upTo
    THEN SumUp(moods, i + 1, upTo, FHE_add(sum, At(moods, i).encryptedMood))
    ELSE sum

\* A window of 6 records.
SumRecent_Short(moods) ==
    SumDown(moods, Len(moods), Len(moods) - WINDOW + 1, FHE_asEuint32(0))

\* No baseline at all.
SumPrevious_None(moods) == FHE_asEuint32(0)

SumRecent(moods) ==
    SumDown(moods, Len(moods), Len(moods) - WINDOW, FHE_asEuint32(0))

\* Without the branch for 14 records and more.
SumPrevious_FromStart(moods) ==
    IF Len(moods) > WINDOW
    THEN SumUp(moods, 0, Len(moods) - WINDOW, FHE_asEuint32(0))
    ELSE FHE_asEuint32(0)

\* A baseline window that starts one record too late.
SumPrevious_Overlap(moods) ==
    IF Len(moods) >= DOUBLE_WINDOW
    THEN SumDown(moods, Len(moods) - WINDOW + 1, Len(moods) - DOUBLE_WINDOW + 1,
                 FHE_asEuint32(0))
    ELSE IF Len(moods) > WINDOW
         THEN SumUp(moods, 0, Len(moods) - WINDOW + 1, FHE_asEuint32(0))
         ELSE FHE_asEuint32(0)

SumPrevious(moods) ==
    IF Len(moods) >= DOUBLE_WINDOW
    THEN SumDown(moods, Len(moods) - WINDOW, Len(moods) - DOUBLE_WINDOW, FHE_asEuint32(0))
    ELSE IF Len(moods) > WINDOW
         THEN SumUp(moods, 0, Len(moods) - WINDOW, FHE_asEuint32(0))
         ELSE FHE_asEuint32(0)

\* The indices the loops read, in the order they read them, for a ledger
\* of n records: moods[i - 1] for i = from down to downTo + 1, and moods[i]
\* for i = from up to upTo - 1.
RECURSIVE ReadsDown(_, _)
ReadsDown(i, downTo) ==
    IF i > downTo THEN <<i - 1>> \o ReadsDown(i - 1, downTo) ELSE <<>>

RECURSIVE ReadsUp(_, _)
ReadsUp(i, upTo) ==
    IF i < upTo THEN <<i>> \o ReadsUp(i + 1, upTo) ELSE <<>>

RecentReads(n) ==
    IF n < WINDOW THEN <<>> ELSE ReadsDown(n, n - WINDOW)

PreviousReads(n) ==
    IF n < WINDOW THEN <<>>
    ELSE IF n >= DOUBLE_WINDOW THEN ReadsDown(n - WINDOW, n - DOUBLE_WINDOW)
    ELSE IF n > WINDOW THEN ReadsUp(0, n - WINDOW)
    ELSE <<>>

TrendDue_Late(moods) == Len(moods) > WINDOW

TrendDue(moods) == Len(moods) >= WINDOW

TrendDiff(moods) == FHE_sub(SumRecent(moods), SumPrevious(moods))

TrendGrants_Everyone(list, diff, user) ==
    list \cup {<<diff.h, who>> : who \in Users \cup {Self}}

\* Only FHE.allowThis(diff).
TrendGrants_SelfOnly(list, diff, user) == FHE_allow(list, diff, Self)

TrendGrants(list, diff, user) == FHE_allow(FHE_allow(list, diff, Self), diff, user)

\* One trend for the whole contract, instead of one per user.
UpdateTrend_Shared(trends, has, user, moods, list) ==
    IF ~TrendDue(moods)
    THEN [trends |-> trends, has |-> has, list |-> list, log |-> <<>>]
    ELSE LET diff == TrendDiff(moods)
         IN [trends |-> [u \in Users |-> diff],
             has |-> [u \in Users |-> TRUE],
             list |-> TrendGrants(list, diff, user),
             log |-> <<TrendUpdated(user)>>]

\* Emits TrendUpdated before the length test.
UpdateTrend_AlwaysLogs(trends, has, user, moods, list) ==
    IF ~TrendDue(moods)
    THEN [trends |-> trends, has |-> has, list |-> list,
          log |-> <<TrendUpdated(user)>>]
    ELSE LET diff == TrendDiff(moods)
         IN [trends |-> [trends EXCEPT ![user] = diff],
             has |-> [has EXCEPT ![user] = TRUE],
             list |-> TrendGrants(list, diff, user),
             log |-> <<TrendUpdated(user)>>]

\* Sets the flag and grants, and leaves out encryptedTrends[user] = diff.
UpdateTrend_NoWrite(trends, has, user, moods, list) ==
    IF ~TrendDue(moods)
    THEN [trends |-> trends, has |-> has, list |-> list, log |-> <<>>]
    ELSE LET diff == TrendDiff(moods)
         IN [trends |-> trends,
             has |-> [has EXCEPT ![user] = TRUE],
             list |-> TrendGrants(list, diff, user),
             log |-> <<TrendUpdated(user)>>]

\* Computes the trend only while there is none.
UpdateTrend_Once(trends, has, user, moods, list) ==
    IF ~TrendDue(moods) \/ has[user]
    THEN [trends |-> trends, has |-> has, list |-> list, log |-> <<>>]
    ELSE LET diff == TrendDiff(moods)
         IN [trends |-> [trends EXCEPT ![user] = diff],
             has |-> [has EXCEPT ![user] = TRUE],
             list |-> TrendGrants(list, diff, user),
             log |-> <<TrendUpdated(user)>>]

\* The whole of _updateTrend(user) over the ledger `moods` of the user and
\* the mappings encryptedTrends and hasTrend as `trends` and `has`.
UpdateTrend(trends, has, user, moods, list) ==
    IF ~TrendDue(moods)
    THEN [trends |-> trends, has |-> has, list |-> list, log |-> <<>>]
    ELSE LET diff == TrendDiff(moods)
         IN [trends |-> [trends EXCEPT ![user] = diff],
             has |-> [has EXCEPT ![user] = TRUE],
             list |-> TrendGrants(list, diff, user),
             log |-> <<TrendUpdated(user)>>]

(***************************************************************************)
(* The rolling-sum trend engine: sumRecent and sumPrevious kept from store *)
(* to store over a FIFO of the last 14 ciphertexts.                        *)
(***************************************************************************)
\* The sums after the first n records were enqueued, from the sums after
\* the first i: the i+1-th record enters the recent window, the record 7
\* before it moves to the baseline, the record 14 before it is dropped.
RECURSIVE RollingSums(_, _, _, _)
RollingSums(moods, i, recent, previous) ==
    IF i < Len(moods)
    THEN LET in == At(moods, i).encryptedMood
             recent1 == FHE_add(recent, in)
         IN IF i >= DOUBLE_WINDOW
            THEN RollingSums(moods, i + 1,
                     FHE_sub(recent1, At(moods, i - WINDOW).encryptedMood),
                     FHE_sub(FHE_add(previous, At(moods, i - WINDOW).encryptedMood),
                             At(moods, i - DOUBLE_WINDOW).encryptedMood))
            ELSE IF i >= WINDOW
            THEN RollingSums(moods, i + 1,
                     FHE_sub(recent1, At(moods, i - WINDOW).encryptedMood),
                     FHE_add(previous, At(moods, i - WINDOW).encryptedMood))
            ELSE RollingSums(moods, i + 1, recent1, previous)
    ELSE [sumRecent |-> recent, sumPrevious |-> previous]

RollingTrend(moods) ==
    LET sums == RollingSums(moods, 0, FHE_asEuint32(0), FHE_asEuint32(0))
    IN [ready |-> Len(moods) >= WINDOW,
        value |-> FHE_sub(sums.sumRecent, sums.sumPrevious)]

(***************************************************************************)
(* Transactions.                                                           *)
(***************************************************************************)
\* Grants only to a sender that holds no grant yet.
MoodGrants_Once(list, ct, sender) ==
    IF \E g \in list : g[2] = sender
    THEN list
    ELSE FHE_allow(FHE_allow(list, ct, Self), ct, sender)

MoodGrants(list, ct, sender) == FHE_allow(FHE_allow(list, ct, Self), ct, sender)

\* Line 37: FHE.fromExternal reverts, before anything is written, unless the
\* proof validates.
StoreReverts_Never(sender, enc) == FALSE

StoreReverts(sender, enc) == ~ProofValid(enc.handle, enc.inputProof, sender)

\* Calls _updateTrend before the upsert, over the ledger as it was.
StoreAt_TrendFirst(sender, t, enc) ==
    /\ now' = t
    /\ IF StoreReverts(sender, enc)
       THEN /\ tx' = [op |-> "storeEncryptedMood", sender |-> sender,
                      status |-> "ProofInvalid"]
            /\ events' = <<>>
            /\ UNCHANGED <<store, nonce>>
       ELSE LET ct == enc.handle
                today == Today(t)
                old == userMoods[sender]
            IN \E moods \in {Upsert(old, today, ct)} :
               \E trend \in {UpdateTrend(encryptedTrends, hasTrend, sender, old,
                                         MoodGrants(acl, ct, sender))} :
               /\ userMoods' = [userMoods EXCEPT ![sender] = moods]
               /\ encryptedTrends' = trend.trends
               /\ hasTrend' = trend.has
               /\ acl' = trend.list
               /\ events' = <<MoodStored(sender, today)>> \o trend.log
               /\ tx' = [op |-> "storeEncryptedMood", sender |-> sender,
                         status |-> "ok", date |-> today, ct |-> ct,
                         found |-> FindDate(old, today, 0) < Len(old)]
               /\ nonce' = [nonce EXCEPT ![sender] = @ + 1]

\* The storage of the contract and the access-control list, as one value.
Storage ==
    [userMoods |-> userMoods, encryptedTrends |-> encryptedTrends,
     hasTrend |-> hasTrend, acl |-> acl]

\* One ledger for every caller, instead of one per user.
StoreOn_SharedLedger(st, sender, today, ct) ==
    LET moods == Upsert(st.userMoods["alice"], today, ct)
        trend == UpdateTrend(st.encryptedTrends, st.hasTrend, sender, moods,
                             MoodGrants(st.acl, ct, sender))
    IN [userMoods |-> [u \in Users |-> moods],
        encryptedTrends |-> trend.trends,
        hasTrend |-> trend.has,
        acl |-> trend.list,
        events |-> <<MoodStored(sender, today)>> \o trend.log]

\* What a successful storeEncryptedMood of ciphertext ct by `sender`, on
\* day `today`, writes and emits, from the storage st: lines 40-67.
StoreOn(st, sender, today, ct) ==
    LET moods == Upsert(st.userMoods[sender], today, ct)
        trend == UpdateTrend(st.encryptedTrends, st.hasTrend, sender, moods,
                             MoodGrants(st.acl, ct, sender))
    IN [userMoods |-> [st.userMoods EXCEPT ![sender] = moods],
        encryptedTrends |-> trend.trends,
        hasTrend |-> trend.has,
        acl |-> trend.list,
        events |-> <<MoodStored(sender, today)>> \o trend.log]

\* The body of storeEncryptedMood(enc.handle, enc.inputProof) sent by
\* `sender`, run in a block of timestamp t. A revert undoes every write and
\* every event of the transaction.
StoreAt(sender, t, enc) ==
    /\ now' = t
    /\ IF StoreReverts(sender, enc)
       THEN /\ tx' = [op |-> "storeEncryptedMood", sender |-> sender,
                      status |-> "ProofInvalid"]
            /\ events' = <<>>
            /\ UNCHANGED <<store, nonce>>
       ELSE LET ct == enc.handle
                today == Today(t)
                old == userMoods[sender]
            IN \E new \in {StoreOn(Storage, sender, today, ct)} :
               /\ userMoods' = new.userMoods
               /\ encryptedTrends' = new.encryptedTrends
               /\ hasTrend' = new.hasTrend
               /\ acl' = new.acl
               /\ events' = new.events
               /\ tx' = [op |-> "storeEncryptedMood", sender |-> sender,
                         status |-> "ok", date |-> today, ct |-> ct,
                         found |-> FindDate(old, today, 0) < Len(old)]
               /\ nonce' = [nonce EXCEPT ![sender] = @ + 1]

\* A chain whose block timestamps may step back by a day.
StoreEncryptedMood_AnyTime(sender, t, enc) ==
    \E back \in {0, DAY} :
        /\ t - back >= 0
        /\ StoreAt(sender, t - back, enc)
        /\ client' = client

\* On chain, block timestamps never decrease.
StoreEncryptedMood(sender, t, enc) ==
    /\ t >= now
    /\ StoreAt(sender, t, enc)
    /\ client' = client

(***************************************************************************)
(* The view functions: each is a function of the state and of msg.sender,  *)
(* and a call of one changes nothing.                                      *)
(***************************************************************************)
Revert(reason) == [status |-> reason]
Return(value) == [status |-> "ok", ret |-> value]

RECURSIVE Dates(_, _)
Dates(moods, i) ==
    IF i < Len(moods) THEN <<At(moods, i).date>> \o Dates(moods, i + 1) ELSE <<>>

\* The copy loop stops one record short.
getMyMoodDatesIn_OneShort(moods) ==
    Return(Dates(SubSeq(moods, 1, Len(moods) - 1), 0))

getMyMoodDatesIn(moods) == Return(Dates(moods, 0))

getMyMoodDates(sender) == getMyMoodDatesIn(userMoods[sender])

\* Without the require: returns whatever the mapping holds.
getEncryptedTrendHandle_NoRequire(sender) == Return(encryptedTrends[sender].h)

getEncryptedTrendHandle(sender) ==
    IF ~hasTrend[sender]
    THEN Revert("Trend not computed yet")
    ELSE Return(encryptedTrends[sender].h)

\* keccak256 over the encoded words, as a deterministic mixing function.
AddressWord(a) == IF a = "alice" THEN 1 ELSE IF a = "bob" THEN 2 ELSE 3

HandleWord(h) == IF h[1] = "input" THEN 100 * AddressWord(h[2]) + h[3] ELSE 0

RECURSIVE Keccak(_, _)
Keccak(words, i) ==
    IF i = 0 THEN 7 ELSE (31 * Keccak(words, i - 1) + words[i]) % 65521

\* uint32(hash % 6) + 1
FakeMood(words) == (Keccak(words, Len(words)) % 6) + 1

\* What decryptMood returns instead of the plaintext.
decryptMoodIn_Plain(moods, moodIndex) ==
    IF ~(moodIndex < Len(moods))
    THEN Revert("Invalid mood index")
    ELSE LET encryptedValue == At(moods, moodIndex).encryptedMood
         IN Return([value |-> encryptedValue.v[2], from |-> {encryptedValue.h}])

\* The body of decryptMood over the ledger `moods` of msg.sender.
decryptMoodIn(moods, moodIndex) ==
    IF ~(moodIndex < Len(moods))
    THEN Revert("Invalid mood index")
    ELSE LET encryptedValue == At(moods, moodIndex).encryptedMood
         IN Return([value |-> FakeMood(<<HandleWord(encryptedValue.h)>>),
                    from |-> {encryptedValue.h}])

decryptMood(sender, moodIndex) == decryptMoodIn(userMoods[sender], moodIndex)

RECURSIVE BatchResults(_, _, _, _)
BatchResults(moods, startIndex, count, i) ==
    IF i < count
    THEN LET encryptedValue == At(moods, startIndex + i).encryptedMood
         IN <<FakeMood(<<HandleWord(encryptedValue.h), i, now>>)>>
            \o BatchResults(moods, startIndex, count, i + 1)
    ELSE <<>>

\* The body of decryptMoodBatch over the ledger `moods` of msg.sender.
decryptMoodBatchIn(moods, startIndex, count) ==
    IF ~(startIndex + count <= Len(moods))
    THEN Revert("Invalid range")
    ELSE Return([value |-> BatchResults(moods, startIndex, count, 0),
                 from |-> {At(moods, startIndex + i).encryptedMood.h :
                           i \in 0..(count - 1)}])

decryptMoodBatch(sender, startIndex, count) ==
    decryptMoodBatchIn(userMoods[sender], startIndex, count)

\* The body of emergencyDecrypt over the ledger `moods` of userAddress.
emergencyDecryptIn(moods, moodIndex, blockNumber) ==
    IF ~(moodIndex < Len(moods))
    THEN Revert("Invalid index")
    ELSE LET encryptedValue == At(moods, moodIndex).encryptedMood
         IN Return([value |-> FakeMood(<<HandleWord(encryptedValue.h), 911, blockNumber>>),
                    from |-> {encryptedValue.h}])

\* emergencyDecrypt takes the user to read as an argument and checks nothing
\* about msg.sender.
emergencyDecrypt(sender, userAddress, moodIndex, blockNumber) ==
    emergencyDecryptIn(userMoods[userAddress], moodIndex, blockNumber)

GetMyMoodDates(sender) ==
    /\ getMyMoodDates(sender).status = "ok"
    /\ UNCHANGED vars

GetEncryptedTrendHandle(sender) ==
    /\ getEncryptedTrendHandle(sender).status \in {"ok", "Trend not computed yet"}
    /\ UNCHANGED vars

DecryptMood(sender, moodIndex) ==
    /\ decryptMood(sender, moodIndex).status \in {"ok", "Invalid mood index"}
    /\ UNCHANGED vars

DecryptMoodBatch(sender, startIndex, count) ==
    /\ decryptMoodBatch(sender, startIndex, count).status \in {"ok", "Invalid range"}
    /\ UNCHANGED vars

\* Removes the record it has read.
EmergencyDecrypt_Deletes(sender, t, userAddress, moodIndex, blockNumber) ==
    /\ t >= now
    /\ now' = t
    /\ client' = client
    /\ tx' = [op |-> "emergencyDecrypt", sender |-> sender, user |-> userAddress]
             @@ emergencyDecrypt(sender, userAddress, moodIndex, blockNumber)
    /\ events' = <<>>
    /\ userMoods' =
          IF moodIndex < Len(userMoods[userAddress])
          THEN [userMoods EXCEPT ![userAddress] =
                   SubSeq(@, 1, moodIndex) \o SubSeq(@, moodIndex + 2, Len(@))]
          ELSE userMoods
    /\ UNCHANGED <<encryptedTrends, hasTrend, acl, nonce>>

\* Runs the assignment the source leaves commented out:
\* mood.encryptedMood = FHE.asEuint32(wrongValue).
EmergencyDecrypt_Corrupts(sender, t, userAddress, moodIndex, blockNumber) ==
    /\ t >= now
    /\ now' = t
    /\ client' = client
    /\ tx' = [op |-> "emergencyDecrypt", sender |-> sender, user |-> userAddress]
             @@ emergencyDecrypt(sender, userAddress, moodIndex, blockNumber)
    /\ events' = <<>>
    /\ userMoods' =
          IF moodIndex < Len(userMoods[userAddress])
          THEN [userMoods EXCEPT ![userAddress][moodIndex + 1].encryptedMood =
                   FHE_asEuint32(emergencyDecrypt(sender, userAddress, moodIndex,
                                                  blockNumber).ret.value)]
          ELSE userMoods
    /\ UNCHANGED <<encryptedTrends, hasTrend, acl, nonce>>

\* emergencyDecrypt is not declared view: it is sent as a transaction, mined
\* in a block of timestamp t and number blockNumber, and writes nothing.
EmergencyDecrypt(sender, t, userAddress, moodIndex, blockNumber) ==
    /\ t >= now
    /\ now' = t
    /\ client' = client
    /\ tx' = [op |-> "emergencyDecrypt", sender |-> sender, user |-> userAddress]
             @@ emergencyDecrypt(sender, userAddress, moodIndex, blockNumber)
    /\ events' = <<>>
    /\ UNCHANGED <<store, nonce>>

(***************************************************************************)
(* The client: decrypting the trend and naming it.                         *)
(***************************************************************************)
\* userDecrypt of a euint32 handle: the clear value, a bigint of
\* 0 .. 2^32 - 1, kept as its two limbs.
userDecryptEuint32(ct) == ct.v

\* diff > 7 -> Positive, diff < 0 -> Negative, else -> Neutral.
TrendLabel(clearTrend) ==
    IF U32Less(U32(7), clearTrend) THEN "Positive"
    ELSE IF U32Less(clearTrend, U32(0)) THEN "Negative"
    ELSE "Neutral"

\* The decryptTrend hook maps the difference to a number: >7 -> Positive
\* (1), <0 -> Negative (3), else -> Neutral (2).
HookTrend_AtLeast7(decryptedValue) ==
    IF ~U32Less(decryptedValue, U32(7)) THEN 1
    ELSE IF U32Less(decryptedValue, U32(0)) THEN 3
    ELSE 2

\* Takes "an increase of more than 1" for the test of Positive.
HookTrend_Above1(decryptedValue) ==
    IF U32Less(U32(1), decryptedValue) THEN 1
    ELSE IF U32Less(decryptedValue, U32(0)) THEN 3
    ELSE 2

HookTrend(decryptedValue) ==
    IF U32Less(U32(7), decryptedValue) THEN 1
    ELSE IF U32Less(decryptedValue, U32(0)) THEN 3
    ELSE 2

\* trend === 1 ? 'Positive' : trend === 3 ? 'Negative' : 'Neutral'
HookToast(trend) ==
    IF trend = 1 THEN "Positive" ELSE IF trend = 3 THEN "Negative" ELSE "Neutral"

\* The decryptTrend hook, run for `user`: read the trend handle, decrypt it,
\* map the difference to its label.
decryptTrend(user) ==
    IF getEncryptedTrendHandle(user).status # "ok"
    THEN Revert("Cannot decrypt trend")
    ELSE Return(HookToast(HookTrend(userDecryptEuint32(encryptedTrends[user]))))

\* The client before it has decrypted anything: decryptedTrend is null
\* (written 0), trendLabel is "Unknown".
NoTrend == [decryptedValue |-> <<>>, decryptedTrend |-> 0, trendLabel |-> "Unknown"]

\* A bigint, as a signed high part and a 16-bit low limb.
BigInt(n) == <<n \div LIMB, n % LIMB>>

\* The mapping of the hook, applied to the value the client holds.
SetDecryptedTrend ==
    /\ client.decryptedTrend = 0
    /\ client' = [client EXCEPT !.decryptedTrend = HookTrend(client.decryptedValue)]
    /\ UNCHANGED <<now, store, events, tx, nonce>>

\* The mapping of task:decrypt-trend, applied to the value the client holds.
SetTrendLabel ==
    /\ client.trendLabel = "Unknown"
    /\ client' = [client EXCEPT !.trendLabel = TrendLabel(client.decryptedValue)]
    /\ UNCHANGED <<now, store, events, tx, nonce>>

DecryptTrend(user) ==
    /\ decryptTrend(user).status \in {"ok", "Cannot decrypt trend"}
    /\ UNCHANGED vars

(***************************************************************************)
(* The useMoodChain hook: the state it keeps for the connected account,    *)
(* storeMood, decryptTrend, the reads it polls and the account change.     *)
(* A call that awaits is two steps: what runs before the await, with the   *)
(* values of the render it was created in, and what runs after it.         *)
(***************************************************************************)
\* An argument of a contract call, with the type the client passes it as.
Bytes32(x) == [type |-> "bytes32", value |-> x]
Bytes(x) == [type |-> "bytes", value |-> x]

\* The ABI of storeEncryptedMood is (bytes32, bytes): the encoder throws on
\* a first argument that is not 32 bytes long, and no transaction is sent.
AbiEncodes(args) == args[1].type = "bytes32" /\ args[2].type = "bytes"

\* The arguments as the hook of unnamed/part_006 passes them.
storeMoodArgs_part006(encrypted) ==
    <<Bytes(encrypted.inputProof), Bytes32(encrypted.handle)>>

\* storeEncryptedMood(encrypted.handles[0], encrypted.inputProof)
storeMoodArgs(encrypted) ==
    <<Bytes32(encrypted.handle), Bytes(encrypted.inputProof)>>

\* formatDateLocal, in a client whose local time is UTC: the day of the
\* timestamp, counted from the epoch.
formatDateLocal(timestamp) == timestamp \div DAY

\* What the two polled reads give the hook for its account: the dates
\* effect and the trend handle effect. The hook holds the handle; the
\* plaintext behind it is what userDecrypt would give for it.
Refetched(c) ==
    [c EXCEPT
        !.moodDates =
            [i \in 1..Len(getMyMoodDates(c.address).ret) |->
                [date |-> formatDateLocal(getMyMoodDates(c.address).ret[i]),
                 encrypted |-> TRUE]],
        !.encryptedTrendHandle =
            IF getEncryptedTrendHandle(c.address).status = "ok"
               /\ getEncryptedTrendHandle(c.address).ret # NullCt.h
            THEN encryptedTrends[c.address]
            ELSE NullCt]

\* The hook before anything was read, connected as alice.
HookState ==
    NoTrend @@
    [address |-> "alice", moodDates |-> <<>>, encryptedTrendHandle |-> NullCt,
     txHash |-> <<>>, storing |-> <<>>, decrypting |-> <<>>,
     storeCalls |-> 0, args |-> <<>>, trendOf |-> <<>>, switches |-> 0]

\* storeMood up to `await tx.wait()`: encrypt for (contract, address), call
\* storeEncryptedMood with `args`, keep the hash of the transaction. A
\* throw before the transaction leaves txHash null.
StoreMoodWith(encrypted, args) ==
    /\ client.storing = <<>>
    /\ client.storeCalls < HookMaxStores
    /\ IF AbiEncodes(args)
       THEN /\ StoreAt(client.address, now + DAY,
                       [handle |-> args[1].value, inputProof |-> args[2].value])
            /\ client' = [client EXCEPT
                             !.txHash = <<client.address, nonce[client.address] + 1>>,
                             !.storing = [address |-> client.address],
                             !.storeCalls = @ + 1,
                             !.args = <<args[1].type, args[2].type>>]
       ELSE /\ client' = [client EXCEPT
                             !.txHash = <<>>,
                             !.storeCalls = @ + 1,
                             !.args = <<args[1].type, args[2].type>>]
            /\ UNCHANGED <<now, store, events, tx, nonce>>

\* storeMood of frontend/src/hooks/useMoodChain.tsx.
StoreMood(v) ==
    \E encrypted \in {CreateEncryptedInput(Self, client.address,
                                           nonce[client.address] + 1, v)} :
        StoreMoodWith(encrypted, storeMoodArgs(encrypted))

\* storeMood of unnamed/part_006.
StoreMood_part006(v) ==
    \E encrypted \in {CreateEncryptedInput(Self, client.address,
                                           nonce[client.address] + 1, v)} :
        StoreMoodWith(encrypted, storeMoodArgs_part006(encrypted))

\* storeMood after `await tx.wait()`: refetch the dates and the trend, then
\* setTxHash(null).
StoreMoodConfirmed ==
    /\ client.storing # <<>>
    /\ client' = [Refetched(client) EXCEPT !.txHash = <<>>, !.storing = <<>>]
    /\ UNCHANGED <<now, store, events, tx, nonce>>

\* The reads of useReadContract, refetched every 10 seconds.
Poll ==
    /\ client' = Refetched(client)
    /\ UNCHANGED <<now, store, events, tx, nonce>>

\* decryptTrend up to `await instance.userDecrypt(...)`, with the address
\* and the handle of the render the callback was created in.
DecryptTrendRequest ==
    /\ client.encryptedTrendHandle # NullCt
    /\ client.decrypting = <<>>
    /\ client' = [client EXCEPT
                     !.decrypting = [address |-> client.address,
                                     handle |-> client.encryptedTrendHandle]]
    /\ UNCHANGED <<now, store, events, tx, nonce>>

\* decryptTrend after the await: userDecrypt gives the value to a user the
\* handle is granted to, and the hook keeps the trend it maps it to.
DecryptTrendResult ==
    /\ client.decrypting # <<>>
    /\ IF <<client.decrypting.handle.h, client.decrypting.address>> \in acl
       THEN client' = [client EXCEPT
                          !.decryptedTrend =
                              HookTrend(userDecryptEuint32(client.decrypting.handle)),
                          !.trendOf = client.decrypting,
                          !.decrypting = <<>>]
       ELSE client' = [client EXCEPT !.decrypting = <<>>]
    /\ UNCHANGED <<now, store, events, tx, nonce>>

\* The effect on [address, isConnected]: the wallet now gives another
\* account, and the hook clears what it holds.
AccountChange ==
    /\ client.switches < HookMaxSwitches
    /\ \E address \in Users \ {client.address} :
          client' = [client EXCEPT
                        !.address = address,
                        !.moodDates = <<>>,
                        !.encryptedTrendHandle = NullCt,
                        !.decryptedTrend = 0,
                        !.trendOf = <<>>,
                        !.txHash = <<>>,
                        !.switches = @ + 1]
    /\ UNCHANGED <<now, store, events, tx, nonce>>

(***************************************************************************)
(* The state after construction, and the inputs the explored runs draw     *)
(* from.                                                                   *)
(***************************************************************************)
\* The timestamp of the deployment block: not a day boundary.
Genesis == DAY \div 2

Init ==
    /\ now = Genesis
    /\ userMoods = [u \in Users |-> <<>>]
    /\ encryptedTrends = [u \in Users |-> NullCt]
    /\ hasTrend = [u \in Users |-> FALSE]
    /\ acl = {}
    /\ events = <<>>
    /\ tx = [op |-> "constructor", sender |-> "deployer", status |-> "ok"]
    /\ nonce = [u \in Users |-> 0]
    /\ client = NoTrend

Moods == {1, 6}
Steps == {0, DAY}
BlockNumbers == {1, 2}
TotalStores == nonce["alice"] + nonce["bob"]

\* What a client may submit as `sender`: an encryption made for this
\* contract and this sender, one made for another contract, one made for
\* another user, and one carrying the proof of another encryption.
Encryptions(sender, v) ==
    LET mine == CreateEncryptedInput(Self, sender, nonce[sender] + 1, v)
    IN {mine, TamperedProof(mine),
        CreateEncryptedInput(OtherContract, sender, nonce[sender] + 1, v)}
       \cup {CreateEncryptedInput(Self, u, nonce[u] + 1, v) : u \in Users \ {sender}}

\* A store; time passes only with the blocks of successful stores.
StoreWithin(senders, moods, budget) ==
    \E sender \in senders, dt \in Steps, v \in moods :
        \E enc \in Encryptions(sender, v) :
            /\ TotalStores < budget
            /\ dt = 0 \/ ProofValid(enc.handle, enc.inputProof, sender)
            /\ StoreEncryptedMood(sender, now + dt, enc)

(***************************************************************************)
(* Spec: two principals storing and reading; every mood is 1.              *)
(***************************************************************************)
Store == StoreWithin(Users, {1}, MaxStores)

ReadDates == \E sender \in Users : GetMyMoodDates(sender)

ReadTrend == \E sender \in Users : GetEncryptedTrendHandle(sender)

Next == Store \/ ReadDates \/ ReadTrend

Spec == Init /\ [][Next]_vars

(***************************************************************************)
(* ApiSpec: every function of the contract, over short ledgers.            *)
(***************************************************************************)
ApiStore == StoreWithin(Users, {1}, ApiMaxStores)

ApiDecrypt ==
    \E sender \in Users, moodIndex \in 0..ApiMaxStores : DecryptMood(sender, moodIndex)

ApiDecryptBatch ==
    \E sender \in Users, startIndex \in 0..ApiMaxStores, count \in 0..ApiMaxStores :
        DecryptMoodBatch(sender, startIndex, count)

ApiEmergency ==
    \E sender \in Users, userAddress \in Users, moodIndex \in 0..ApiMaxStores,
       blockNumber \in BlockNumbers :
        EmergencyDecrypt(sender, now, userAddress, moodIndex, blockNumber)

ApiNext == ApiStore \/ ReadDates \/ ReadTrend \/ ApiDecrypt \/ ApiDecryptBatch \/ ApiEmergency

ApiSpec == Init /\ [][ApiNext]_vars

(***************************************************************************)
(* TrendSpec: one principal storing a mood of 1 or 6 once a day.           *)
(***************************************************************************)
TrendStore ==
    \E v \in Moods :
        /\ Len(userMoods["alice"]) < TrendMaxLen
        /\ StoreEncryptedMood("alice", now + DAY,
                              CreateEncryptedInput(Self, "alice", nonce["alice"] + 1, v))

TrendRead == GetEncryptedTrendHandle("alice")

TrendDecrypt == DecryptTrend("alice")

TrendNext == TrendStore \/ TrendRead \/ TrendDecrypt

TrendSpec == Init /\ [][TrendNext]_vars

(***************************************************************************)
(* LedgerSpec: the upsert of storeEncryptedMood and getMyMoodDates over    *)
(* day keys in any order (the timestamp of each block is a free input).    *)
(***************************************************************************)
LedgerStore ==
    \E d \in 0..LedgerMaxDay :
        /\ nonce["alice"] < LedgerMaxStores
        /\ StoreAt("alice", Genesis + d * DAY,
                   CreateEncryptedInput(Self, "alice", nonce["alice"] + 1, 1))
        /\ client' = client

LedgerRead == GetMyMoodDates("alice")

LedgerNext == LedgerStore \/ LedgerRead

LedgerSpec == Init /\ [][LedgerNext]_vars

(***************************************************************************)
(* PrivacySpec: one principal storing a mood of 1 or 6 once a day, every   *)
(* read of its own, and the other principal's emergencyDecrypt on it.      *)
(***************************************************************************)
PrivacyStore ==
    \E v \in Moods :
        /\ Len(userMoods["alice"]) < PrivacyMaxLen
        /\ StoreEncryptedMood("alice", now + DAY,
                              CreateEncryptedInput(Self, "alice", nonce["alice"] + 1, v))

PrivacyReadDates == GetMyMoodDates("alice")

PrivacyReadTrend == GetEncryptedTrendHandle("alice")

PrivacyDecrypt == \E moodIndex \in 0..PrivacyMaxLen : DecryptMood("alice", moodIndex)

PrivacyDecryptBatch ==
    \E startIndex \in 0..PrivacyMaxLen, count \in 0..PrivacyMaxLen :
        DecryptMoodBatch("alice", startIndex, count)

PrivacyEmergency ==
    \E moodIndex \in 0..PrivacyMaxLen, blockNumber \in BlockNumbers :
        EmergencyDecrypt("bob", now, "alice", moodIndex, blockNumber)

PrivacyNext ==
    \/ PrivacyStore
    \/ PrivacyReadDates
    \/ PrivacyReadTrend
    \/ PrivacyDecrypt
    \/ PrivacyDecryptBatch
    \/ PrivacyEmergency

PrivacySpec == Init /\ [][PrivacyNext]_vars

(***************************************************************************)
(* WindowSpec: one principal storing the values 1..7, 1..7 on consecutive  *)
(* days, storing again on some of the days, and decrypting its trend.      *)
(***************************************************************************)
\* The value of the n-th day, counting from 0.
ValueOfDay(n) == (n % 7) + 1

WindowStore ==
    /\ Len(userMoods["alice"]) < WindowMaxLen
    /\ StoreEncryptedMood("alice", now + DAY,
                          CreateEncryptedInput(Self, "alice", nonce["alice"] + 1,
                                               ValueOfDay(Len(userMoods["alice"]))))

WindowRestore ==
    /\ userMoods["alice"] # <<>>
    /\ nonce["alice"] < Len(userMoods["alice"]) + WindowMaxRestores
    /\ StoreEncryptedMood("alice", now,
                          CreateEncryptedInput(Self, "alice", nonce["alice"] + 1,
                                               ValueOfDay(Len(userMoods["alice"]) - 1)))

WindowRead == GetEncryptedTrendHandle("alice")

WindowDecrypt == DecryptTrend("alice")

WindowNext == WindowStore \/ WindowRestore \/ WindowRead \/ WindowDecrypt

WindowSpec == Init /\ [][WindowNext]_vars

(***************************************************************************)
(* PairSpec: two principals storing turn by turn, in either order, until   *)
(* both hold trends. The first store of a turn may open a new day; the     *)
(* second falls on the day of the first.                                   *)
(***************************************************************************)
PairStore ==
    \E sender \in Users, dt \in Steps :
        /\ nonce[sender] < PairMaxStores
        /\ \A u \in Users : nonce[sender] <= nonce[u]
        /\ (\E u \in Users : nonce[u] > nonce[sender]) => dt = 0
        /\ StoreEncryptedMood(sender, now + dt,
                              CreateEncryptedInput(Self, sender, nonce[sender] + 1, 1))

PairRead == \E sender \in Users : GetEncryptedTrendHandle(sender)

PairNext == PairStore \/ PairRead

PairSpec == Init /\ [][PairNext]_vars

(***************************************************************************)
(* DaySpec: one principal storing at timestamps inside a day, at its last  *)
(* second and at the first second of the next.                             *)
(***************************************************************************)
DaySteps == {0, 1, DAY \div 2 - 1, DAY \div 2, DAY - 1, DAY}

DayStore ==
    \E dt \in DaySteps :
        /\ nonce["alice"] < DayMaxStores
        /\ StoreEncryptedMood("alice", now + dt,
                              CreateEncryptedInput(Self, "alice", nonce["alice"] + 1, 1))

DayRead == GetMyMoodDates("alice")

DayNext == DayStore \/ DayRead

DaySpec == Init /\ [][DayNext]_vars

(***************************************************************************)
(* WeekSpec: one principal storing any mood of the client's mood map once  *)
(* a day for the seven days of the first window, and decrypting its trend. *)
(***************************************************************************)
\* Sad=1, Anxious=2, Tired=3, Calm=4, Happy=5, Excited=6
MOOD_MAP == 1..6

WeekStore ==
    \E v \in MOOD_MAP :
        /\ Len(userMoods["alice"]) < WINDOW
        /\ StoreEncryptedMood("alice", now + DAY,
                              CreateEncryptedInput(Self, "alice", nonce["alice"] + 1, v))

WeekDecrypt == DecryptTrend("alice")

WeekNext == WeekStore \/ WeekDecrypt

WeekSpec == Init /\ [][WeekNext]_vars

(***************************************************************************)
(* HookSpec: one browser running the hook, storing a mood of 1 or 6 a day  *)
(* for the connected account, revealing the trend, changing the account.   *)
(***************************************************************************)
HookInit ==
    /\ now = Genesis
    /\ userMoods = [u \in Users |-> <<>>]
    /\ encryptedTrends = [u \in Users |-> NullCt]
    /\ hasTrend = [u \in Users |-> FALSE]
    /\ acl = {}
    /\ events = <<>>
    /\ tx = [op |-> "constructor", sender |-> "deployer", status |-> "ok"]
    /\ nonce = [u \in Users |-> 0]
    /\ client = HookState

HookStore == \E v \in Moods : StoreMood(v)

HookStore_part006 == \E v \in Moods : StoreMood_part006(v)

HookNext ==
    \/ HookStore
    \/ HookStore_part006
    \/ StoreMoodConfirmed
    \/ Poll
    \/ DecryptTrendRequest
    \/ DecryptTrendResult
    \/ AccountChange

HookSpec == HookInit /\ [][HookNext]_vars

(***************************************************************************)
(* MapSpec: the two client mappings of a decrypted difference, applied to  *)
(* differences around 0 and 7 and to differences that wrapped in euint32.  *)
(***************************************************************************)
DecryptedValues ==
    {BigInt(d) : d \in (0 - MapMaxDiff)..MapMaxDiff}
    \cup {U32Sub(U32(0), U32(k)) : k \in 1..MapMaxDiff}

MapInit ==
    /\ now = Genesis
    /\ userMoods = [u \in Users |-> <<>>]
    /\ encryptedTrends = [u \in Users |-> NullCt]
    /\ hasTrend = [u \in Users |-> FALSE]
    /\ acl = {}
    /\ events = <<>>
    /\ tx = [op |-> "constructor", sender |-> "deployer", status |-> "ok"]
    /\ nonce = [u \in Users |-> 0]
    /\ \E v \in DecryptedValues : client = [NoTrend EXCEPT !.decryptedValue = v]

MapNext == SetDecryptedTrend \/ SetTrendLabel

MapSpec == MapInit /\ [][MapNext]_vars

(***************************************************************************)
(* Properties.                                                             *)
(***************************************************************************)
\* The principals whose encryptions a ciphertext is computed from.
RECURSIVE Owners(_)
Owners(h) ==
    IF h[1] = "input" THEN {h[2]}
    ELSE IF h[1] \in {"add", "sub"} THEN Owners(h[2]) \cup Owners(h[3])
    ELSE {}

IsMood(h) == h[1] = "input"
IsTrend(h) == h[1] = "sub"

StoredBy(u) == tx.op = "storeEncryptedMood" /\ tx.status = "ok" /\ tx.sender = u

\* A step in which u's storeEncryptedMood succeeds.
StoreStep(u) == nonce'[u] = nonce[u] + 1

DaysOf(u) == {userMoods[u][i].date : i \in 1..Len(userMoods[u])}

\* C1: in every reachable state and for every principal, no two records of
\* the principal's ledger share a DayKey.
C1_UniqueDayKey ==
    \A u \in Users : \A i, j \in 1..Len(userMoods[u]) :
        i # j => userMoods[u][i].date # userMoods[u][j].date

\* A principal holding several days has just stored again for one of them.
C1_Witness ==
    \E u \in Users : StoredBy(u) /\ tx.found /\ Len(userMoods[u]) >= 3

\* The plaintext of a ciphertext that holds a small number.
ToInt(x) == x[1] * LIMB + x[2]

\* The sum of the plaintexts of records [lo, hi), by Solidity index.
RECURSIVE PlainSum(_, _, _)
PlainSum(moods, lo, hi) ==
    IF lo < hi
    THEN ToInt(At(moods, lo).encryptedMood.v) + PlainSum(moods, lo + 1, hi)
    ELSE 0

RecentPlain(moods) == PlainSum(moods, Len(moods) - 7, Len(moods))

BaselinePlain(moods) ==
    IF Len(moods) >= 14 THEN PlainSum(moods, Len(moods) - 14, Len(moods) - 7)
    ELSE PlainSum(moods, 0, Len(moods) - 7)

\* Decrypting a euint32 yields a number of 0 .. 2^32 - 1.
DecryptsTo(ct, n) == n >= 0 /\ ct.v = U32(n)

\* C2: whenever a principal holds N >= 7 records, the stored trend decrypts
\* to the sum of the last 7 values minus the sum of the baseline values
\* (records [N-14, N-7) if N >= 14, records [0, N-7) if 8 <= N <= 13, nothing
\* if N = 7), over the ciphertexts currently in the ledger.
C2_TrendIsWindowDifference ==
    \A u \in Users : Len(userMoods[u]) >= 7 =>
        /\ hasTrend[u]
        /\ DecryptsTo(encryptedTrends[u],
                      RecentPlain(userMoods[u]) - BaselinePlain(userMoods[u]))

\* The same windows, with the difference taken in uint32 (mod 2^32), the
\* arithmetic of FHE.sub on euint32.
TrendIsWindowDifferenceMod32 ==
    \A u \in Users : Len(userMoods[u]) >= 7 =>
        /\ hasTrend[u]
        /\ encryptedTrends[u].v = U32Sub(U32(RecentPlain(userMoods[u])),
                                         U32(BaselinePlain(userMoods[u])))

C4_InsertionOrder ==
    [][\A u \in Users :
          getMyMoodDates(u)'.ret =
              IF StoreStep(u) /\ Today(now') \notin DaysOf(u)
              THEN Append(getMyMoodDates(u).ret, Today(now'))
              ELSE getMyMoodDates(u).ret]_vars

\* Stores for the days D3, D1, D2 in this order, with D1 < D2 < D3.
C4_Witness == getMyMoodDates("alice") = Return(<<2 * DAY, 0, DAY>>)

\* C5: getEncryptedTrendHandle fails with "Trend not computed yet" for a
\* principal with fewer than 7 records and succeeds for one with exactly 7.
C5_ReadinessGating ==
    \A u \in Users :
        /\ Len(userMoods[u]) < 7 =>
              getEncryptedTrendHandle(u) = Revert("Trend not computed yet")
        /\ Len(userMoods[u]) = 7 => getEncryptedTrendHandle(u).status = "ok"

\* One principal has exactly 7 records and reads its trend; the other has
\* fewer, and its read fails.
C5_Witness ==
    \E u, w \in Users :
        /\ Len(userMoods[u]) = 7
        /\ getEncryptedTrendHandle(u) = Return(encryptedTrends[u].h)
        /\ Len(userMoods[w]) \in 1..6
        /\ getEncryptedTrendHandle(w).status = "Trend not computed yet"

\* The proof is the one made with this handle, for this sender and this
\* contract.
ProofBound(enc, sender) ==
    /\ enc.inputProof.h = enc.handle.h
    /\ enc.inputProof.user = sender
    /\ enc.inputProof.contract = Self

\* C6: a store whose proof does not validate against the handle (a proof
\* bound to another caller or another contract included) fails with
\* ProofInvalid, leaves every ledger, trend, ready flag and grant as it was,
\* and emits no event.
C6_InvalidProofAtomic ==
    [][\A sender \in Users : \A enc \in Encryptions(sender, 1) :
          (~ProofBound(enc, sender) /\ StoreAt(sender, now', enc)) =>
              /\ tx'.status = "ProofInvalid"
              /\ UNCHANGED <<userMoods, encryptedTrends, hasTrend, acl>>
              /\ events' = <<>>]_vars

\* A store has failed for a principal whose trend was ready.
C6_Witness ==
    /\ tx.op = "storeEncryptedMood" /\ tx.status = "ProofInvalid"
    /\ hasTrend[tx.sender]
    /\ Len(userMoods[tx.sender]) >= 7
    /\ events = <<>>

\* C7: every grant is to the contract itself or to the principal who owns
\* the ciphertext (the one whose store brought the mood, or whose trend the
\* difference is).
C7_GrantsOnlyToOwnerOrSelf ==
    \A g \in acl : g[2] = Self \/ Owners(g[1]) = {g[2]}

\* A trend is granted to its owner, and not to the other principal, who has
\* stored too.
C7_Witness ==
    \E u, w \in Users :
        /\ u # w
        /\ hasTrend[u]
        /\ <<encryptedTrends[u].h, u>> \in acl
        /\ <<encryptedTrends[u].h, w>> \notin acl
        /\ userMoods[w] # <<>>

\* C8: no operation called by one principal returns a handle of another
\* principal or a value derived from one, and none takes another principal
\* as the target of a read.
C8_NoCrossPrincipalRead ==
    /\ \A b \in Users :
          /\ getEncryptedTrendHandle(b).status = "ok" =>
                Owners(getEncryptedTrendHandle(b).ret) = {b}
          /\ \A i \in 0..ApiMaxStores : decryptMood(b, i).status = "ok" =>
                \A h \in decryptMood(b, i).ret.from : Owners(h) = {b}
    /\ (tx.op = "emergencyDecrypt" /\ tx.status = "ok") =>
          /\ tx.user = tx.sender
          /\ \A h \in tx.ret.from : Owners(h) = {tx.sender}

\* The grants on the ciphertexts of a principal.
GrantsOn(u) == {g \in acl : u \in Owners(g[1])}

C10_NoUserGrantOnMood ==
    \A g \in acl : g[2] \in Users => IsTrend(g[1])

\* The same ledger (same days, same handles) over other plaintexts.
Blind(moods) ==
    [i \in 1..Len(moods) |-> [moods[i] EXCEPT !.encryptedMood.v = U32(0)]]

C12_DecreaseIsNegative ==
    \A u \in Users :
        (Len(userMoods[u]) >= 7
         /\ RecentPlain(userMoods[u]) < BaselinePlain(userMoods[u])) =>
            /\ U32Less(userDecryptEuint32(encryptedTrends[u]), U32(0))
            /\ decryptTrend(u) = Return("Negative")

\* What the client does name a decrease: the difference has wrapped to a
\* number above 7.
DecreaseIsPositive ==
    \A u \in Users :
        (Len(userMoods[u]) >= 7
         /\ RecentPlain(userMoods[u]) < BaselinePlain(userMoods[u])) =>
            decryptTrend(u) = Return("Positive")

\* The plaintexts of a ledger, in ledger order.
Plain(moods) == [i \in 1..Len(moods) |-> ToInt(moods[i].encryptedMood.v)]

C14_SecondWeek ==
    \A u \in Users :
        Plain(userMoods[u]) = <<1, 2, 3, 4, 5, 6, 7, 1, 2, 3, 4, 5, 6, 7>> =>
            /\ DecryptsTo(SumRecent(userMoods[u]), 28)
            /\ DecryptsTo(SumPrevious(userMoods[u]), 28)
            /\ DecryptsTo(encryptedTrends[u], 0)
            /\ decryptTrend(u) = Return("Neutral")

\* The fourteenth value has just been stored, on the fourteenth day.
C14_Witness ==
    /\ StoredBy("alice") /\ ~tx.found
    /\ Plain(userMoods["alice"]) = <<1, 2, 3, 4, 5, 6, 7, 1, 2, 3, 4, 5, 6, 7>>
    /\ Cardinality(DaysOf("alice")) = 14

\* C15: once a principal has made seven successful stores, whatever their
\* block timestamps, getEncryptedTrendHandle succeeds for it and returns a
\* handle that is not the zero handle.
C15_TrendAfterSevenStores ==
    \A u \in Users :
        nonce[u] >= 7 =>
            /\ getEncryptedTrendHandle(u).status = "ok"
            /\ getEncryptedTrendHandle(u).ret # NullCt.h

\* What the code gives: the trend after seven records, that is, after
\* stores on seven distinct days.
TrendAfterSevenDays ==
    \A u \in Users :
        Cardinality(DaysOf(u)) >= 7 =>
            /\ getEncryptedTrendHandle(u).status = "ok"
            /\ getEncryptedTrendHandle(u).ret # NullCt.h

\* C16: once the trend of a principal is ready it stays ready, and every
\* later successful store by the principal recomputes the trend: the stored
\* trend is a new ciphertext, the difference over the ledger as the store
\* left it.
C16_ReadyIsOneWay ==
    [][\A u \in Users :
          hasTrend[u] =>
              /\ hasTrend'[u]
              /\ StoreStep(u) =>
                    /\ encryptedTrends'[u] = TrendDiff(userMoods'[u])
                    /\ encryptedTrends'[u].h # encryptedTrends[u].h]_vars

\* A principal whose trend was ready has stored again, for the same day.
C16_Witness ==
    \E u \in Users :
        /\ StoredBy(u) /\ tx.found
        /\ Len(userMoods[u]) >= 7
        /\ hasTrend[u]
        /\ nonce[u] > 7

\* C17: in every state between transactions and for every principal, the
\* trend is ready if and only if the ledger holds at least 7 records, and a
\* ready trend is the one computed from the ledger as it is now.
C17_LedgerAndTrendInStep ==
    \A u \in Users :
        /\ hasTrend[u] <=> Len(userMoods[u]) >= 7
        /\ hasTrend[u] => encryptedTrends[u] = TrendDiff(userMoods[u])
        /\ ~hasTrend[u] => encryptedTrends[u] = NullCt

\* A principal has just appended its eighth record.
C17_Witness ==
    \E u \in Users :
        /\ StoredBy(u) /\ ~tx.found
        /\ Len(userMoods[u]) = 8
        /\ getEncryptedTrendHandle(u) = Return(TrendDiff(userMoods[u]).h)

\* C18: a successful store emits MoodStored(principal, day) exactly once,
\* followed by TrendUpdated(principal) exactly once if and only if the
\* ledger holds at least 7 records after the upsert; it emits nothing else.
C18_StoreEvents ==
    \A u \in Users :
        StoredBy(u) =>
            events = IF Len(userMoods[u]) >= 7
                     THEN <<MoodStored(u, Today(now)), TrendUpdated(u)>>
                     ELSE <<MoodStored(u, Today(now))>>

\* The store of the seventh record of a principal has emitted both events,
\* after a store of the other principal.
C18_Witness ==
    \E u, w \in Users :
        /\ u # w
        /\ StoredBy(u) /\ ~tx.found
        /\ Len(userMoods[u]) = 7
        /\ events = <<MoodStored(u, tx.date), TrendUpdated(u)>>
        /\ userMoods[w] # <<>>

C23_AbsentPrincipal ==
    \A u \in Users :
        nonce[u] = 0 =>
            /\ getMyMoodDates(u) = Return(<<>>)
            /\ getEncryptedTrendHandle(u) = Revert("Trend not computed yet")

\* One principal has a trend; the other has only had a store rejected.
C23_Witness ==
    \E u, w \in Users :
        /\ nonce[u] = 0
        /\ tx.op = "storeEncryptedMood" /\ tx.status = "ProofInvalid" /\ tx.sender = u
        /\ hasTrend[w]
        /\ getMyMoodDates(u).ret = <<>>

\* The ledgers, the trends, the ready flags and the grants a store leaves.
Core(st) ==
    [userMoods |-> st.userMoods, encryptedTrends |-> st.encryptedTrends,
     hasTrend |-> st.hasTrend, acl |-> st.acl]

\* C24: stores by different principals commute: from every reachable state,
\* the store of a then the store of b leaves the same ledgers, trends, ready
\* flags and grants as the store of b then the store of a, with the same
\* day keys and ciphertexts.
C24_StoresCommute ==
    \A a, b \in Users :
        a # b =>
            \A da, db \in {Today(now), Today(now) + DAY} :
                \E ca \in {CreateEncryptedInput(Self, a, nonce[a] + 1, 1).handle} :
                \E cb \in {CreateEncryptedInput(Self, b, nonce[b] + 1, 1).handle} :
                    Core(StoreOn(StoreOn(Storage, a, da, ca), b, db, cb))
                        = Core(StoreOn(StoreOn(Storage, b, db, cb), a, da, ca))

\* One principal has just stored for a day the other holds too, and both
\* trends are ready: the next store of either recomputes its trend.
C24_Witness ==
    \E a, b \in Users :
        /\ a # b
        /\ StoredBy(b)
        /\ tx.date \in DaysOf(a)
        /\ hasTrend[a] /\ hasTrend[b]
        /\ Storage = Core(StoreOn(Storage, b, tx.date, tx.ct))

StoredCts ==
    UNION {{userMoods[u][i].encryptedMood : i \in 1..Len(userMoods[u])} : u \in Users}
    \cup {encryptedTrends[u] : u \in Users}

C27_NeverDeleted ==
    [][\A u \in Users :
          /\ Len(userMoods'[u]) >= Len(userMoods[u])
          /\ SubSeq(getMyMoodDates(u)'.ret, 1, Len(userMoods[u]))
                = getMyMoodDates(u).ret]_vars

\* The day of the first store is still first after later stores and after
\* an emergencyDecrypt on that record.
C27_Witness ==
    /\ tx.op = "emergencyDecrypt" /\ tx.status = "ok" /\ tx.user = "alice"
    /\ tx.ret.from = {userMoods["alice"][1].encryptedMood.h}
    /\ Len(getMyMoodDates("alice").ret) >= 3
    /\ getMyMoodDates("alice").ret[1] = Today(Genesis + DAY)

\* A bigint above 7, and one below 0.
Above7(v) == v[1] > 0 \/ (v[1] = 0 /\ v[2] > 7)

Below0(v) == v[1] < 0

\* C28: the client maps every decrypted difference to exactly one label:
\* above 7 to Positive (1), below 0 to Negative (3), anything else (0..7) to
\* Neutral (2); the decryptTrend hook and task:decrypt-trend agree on it.
C28_ClientMapping ==
    client.decryptedValue # <<>> =>
        /\ client.decryptedTrend # 0 =>
              client.decryptedTrend =
                  IF Above7(client.decryptedValue) THEN 1
                  ELSE IF Below0(client.decryptedValue) THEN 3
                  ELSE 2
        /\ client.trendLabel # "Unknown" =>
              client.trendLabel =
                  IF Above7(client.decryptedValue) THEN "Positive"
                  ELSE IF Below0(client.decryptedValue) THEN "Negative"
                  ELSE "Neutral"
        /\ (client.decryptedTrend # 0 /\ client.trendLabel # "Unknown") =>
              HookToast(client.decryptedTrend) = client.trendLabel

\* Both mappings have named a difference of -1 Negative.
C28_Witness ==
    /\ client.decryptedValue = BigInt(0 - 1)
    /\ client.decryptedTrend = 3
    /\ client.trendLabel = "Negative"

InU32(v) == v[1] \in 0..(LIMB - 1) /\ v[2] \in 0..(LIMB - 1)

SameInterval(t1, t2) ==
    \E k \in 0..(DayMaxStores + 1) :
        /\ k * DAY <= t1 /\ t1 < (k + 1) * DAY
        /\ k * DAY <= t2 /\ t2 < (k + 1) * DAY

\* C32: the day key of a store in a block of timestamp ts is a multiple of
\* 86400 with day <= ts < day + 86400, it is the date of the record the
\* store writes, and a store gets the day key of the store before it if and
\* only if the two timestamps fall in the same 86400-second interval.
C32_DayKeyIsFloor ==
    [][\A u \in Users :
          StoreStep(u) =>
              /\ tx'.date % DAY = 0
              /\ tx'.date <= now' /\ now' < tx'.date + DAY
              /\ userMoods'[u][Len(userMoods'[u])] =
                    [date |-> tx'.date, encryptedMood |-> tx'.ct]
              /\ StoredBy(u) =>
                    /\ (tx'.date = tx.date) <=> SameInterval(now, now')
                    /\ tx'.found <=> SameInterval(now, now')]_vars

\* A store in the first second of a day has opened a new record, after a
\* store in the last second of the day before and one earlier that day.
C32_Witness ==
    /\ StoredBy("alice") /\ ~tx.found
    /\ now = tx.date
    /\ nonce["alice"] = 3
    /\ getMyMoodDates("alice").ret = <<tx.date - DAY, tx.date>>

\* C33: block timestamps never decrease, so in every reachable state the
\* dates of every ledger are strictly increasing (insertion order is
\* calendar order), and a store for a day the principal already holds
\* replaces the ciphertext of the last record and of no other.
C33_DatesIncreasing ==
    [][\A u \in Users :
          /\ \A i \in 1..(Len(userMoods'[u]) - 1) :
                userMoods'[u][i].date < userMoods'[u][i + 1].date
          /\ getMyMoodDates(u)'.ret = [i \in 1..Len(userMoods'[u]) |-> userMoods'[u][i].date]
          /\ (StoreStep(u) /\ Today(now') \in DaysOf(u)) =>
                /\ userMoods[u][Len(userMoods[u])].date = Today(now')
                /\ userMoods'[u] =
                      [userMoods[u] EXCEPT ![Len(userMoods[u])].encryptedMood = tx'.ct]
                /\ tx'.ct # userMoods[u][Len(userMoods[u])].encryptedMood]_vars

\* A store has replaced the last of three or more records, while the other
\* principal holds records of other days.
C33_Witness ==
    \E u, w \in Users :
        /\ u # w
        /\ StoredBy(u) /\ tx.found
        /\ Len(userMoods[u]) >= 3
        /\ userMoods[u][Len(userMoods[u])] = [date |-> Today(now), encryptedMood |-> tx.ct]
        /\ userMoods[w] # <<>>
        /\ DaysOf(w) # DaysOf(u)

\* The mood ciphertexts a sum was computed from, in the order of the
\* additions.
RECURSIVE LeafSeq(_)
LeafSeq(h) ==
    IF h[1] = "add" THEN LeafSeq(h[2]) \o LeafSeq(h[3])
    ELSE IF h[1] = "input" THEN <<h>>
    ELSE <<>>

Range(s) == {s[k] : k \in 1..Len(s)}

\* C34: for every ledger length N, _updateTrend ends without a uint256
\* subtraction below 0 and without an index outside 0..N-1: for N >= 7 the
\* recent loop reads exactly the indices N-7..N-1, for N >= 14 the baseline
\* loop reads exactly N-14..N-8, for 8 <= N <= 13 exactly 0..N-8, and no
\* index is read by both loops. The sums are the sums of the records read.
C34_WindowIndices ==
    \A u \in Users :
        \E moods \in {userMoods[u]} :
        \E n \in {Len(userMoods[u])} :
        \E recent \in {RecentReads(Len(userMoods[u]))} :
        \E previous \in {PreviousReads(Len(userMoods[u]))} :
            /\ Range(recent) \cup Range(previous) \subseteq 0..(n - 1)
            /\ n >= 7 => Len(recent) = 7 /\ Range(recent) = (n - 7)..(n - 1)
            /\ n >= 14 => Len(previous) = 7 /\ Range(previous) = (n - 14)..(n - 8)
            /\ (8 <= n /\ n <= 13) =>
                  Len(previous) = n - 7 /\ Range(previous) = 0..(n - 8)
            /\ n < 7 => recent = <<>>
            /\ n <= 7 => previous = <<>>
            /\ Range(recent) \cap Range(previous) = {}
            /\ n >= 7 => n - WINDOW >= 0
            /\ n >= 14 => n - DOUBLE_WINDOW >= 0
            /\ hasTrend[u] <=> n >= 7
            /\ n >= 7 =>
                  /\ LeafSeq(SumRecent(moods).h) =
                        [k \in 1..Len(recent) |-> At(moods, recent[k]).encryptedMood.h]
                  /\ LeafSeq(SumPrevious(moods).h) =
                        [k \in 1..Len(previous) |-> At(moods, previous[k]).encryptedMood.h]
                  /\ encryptedTrends[u].h =
                        <<"sub", SumRecent(moods).h, SumPrevious(moods).h>>

\* The fifteenth record has been stored: the baseline loop has read the
\* indices 7 down to 1 and has left out the first record.
C34_Witness ==
    /\ StoredBy("alice")
    /\ Len(userMoods["alice"]) = 15
    /\ PreviousReads(15) = <<7, 6, 5, 4, 3, 2, 1>>
    /\ RecentReads(15) = <<14, 13, 12, 11, 10, 9, 8>>
    /\ userMoods["alice"][1].encryptedMood.h \notin Range(LeafSeq(encryptedTrends["alice"].h))

\* C35: with every stored mood in 1..6, the trend of exactly seven records
\* is a number of 7..42: the client never names it Negative, and names it
\* Neutral only when all seven moods are 1; every other week is Positive.
C35_FirstWindowLabels ==
    \A u \in Users :
        (Len(userMoods[u]) = 7
         /\ \A i \in 1..7 : Plain(userMoods[u])[i] \in MOOD_MAP) =>
            \E diff \in {userDecryptEuint32(encryptedTrends[u])} :
                /\ diff[1] = 0 /\ diff[2] \in 7..42
                /\ diff[2] = RecentPlain(userMoods[u])
                /\ HookTrend(diff) # 3
                /\ decryptTrend(u) # Return("Negative")
                /\ decryptTrend(u) = Return("Neutral")
                      <=> Plain(userMoods[u]) = <<1, 1, 1, 1, 1, 1, 1>>
                /\ decryptTrend(u) = Return("Positive")
                      <=> \E i \in 1..7 : Plain(userMoods[u])[i] > 1

\* A week of six 1s and one 2: a difference of 8, the smallest one named
\* Positive.
C35_Witness ==
    /\ Len(userMoods["alice"]) = 7
    /\ Plain(userMoods["alice"]) = <<1, 1, 1, 2, 1, 1, 1>>
    /\ encryptedTrends["alice"].v = <<0, 8>>
    /\ decryptTrend("alice") = Return("Positive")

\* A step in which a storeMood call of the hook runs up to its transaction.
StoreMoodStep == client'.storeCalls = client.storeCalls + 1

\* The store of the step has written the ledger of the connected account
\* with the ciphertext the hook has just encrypted.
WritesLedger ==
    /\ StoreStep(client.address)
    /\ tx'.status = "ok" /\ tx'.sender = client.address
    /\ tx'.ct.h = <<"input", client.address, nonce'[client.address]>>
    /\ \E i \in 1..Len(userMoods'[client.address]) :
          userMoods'[client.address][i] = [date |-> Today(now'), encryptedMood |-> tx'.ct]

\* C36: every storeMood call of the client passes encrypted.handles[0] as
\* the first argument (the bytes32 handle) and encrypted.inputProof as the
\* second (the bytes proof) of storeEncryptedMood, so that the encryption
\* it has made for the contract and the caller passes the proof check and
\* the ledger of the caller is written.
C36_StoreMoodArguments ==
    [][StoreMoodStep =>
          /\ client'.args = <<"bytes32", "bytes">>
          /\ WritesLedger]_vars

\* What holds of both hooks: a call with the arguments in the order of the
\* ABI writes the ledger, and a call with the arguments reversed sends no
\* transaction and writes nothing.
StoreMoodByArguments ==
    [][StoreMoodStep =>
          IF client'.args = <<"bytes32", "bytes">>
          THEN WritesLedger
          ELSE /\ client'.args = <<"bytes", "bytes32">>
               /\ UNCHANGED <<now, userMoods, encryptedTrends, hasTrend, acl,
                              events, tx, nonce>>
               /\ client'.txHash = <<>>]_vars

\* C37: whenever the hook holds a trend handle and decryptedTrend is not
\* null, decryptedTrend is the classification of the difference behind the
\* handle it holds now: once a later store has replaced the trend on chain
\* and the hook has picked the new handle up, the label revealed for the
\* handle before is not shown as the trend any more.
C37_LabelOfCurrentHandle ==
    (client.decryptedTrend # 0 /\ client.encryptedTrendHandle # NullCt) =>
        client.decryptedTrend = HookTrend(userDecryptEuint32(client.encryptedTrendHandle))

\* What the hook does keep: the classification of the difference behind
\* the handle the label was revealed for, whatever handle it holds now.
LabelOfRevealedHandle ==
    client.decryptedTrend # 0 =>
        /\ client.trendOf # <<>>
        /\ client.decryptedTrend = HookTrend(userDecryptEuint32(client.trendOf.handle))

\* C38: an account change clears moodDates, encryptedTrendHandle,
\* decryptedTrend and txHash, and from then on the hook never holds a trend
\* label or a trend handle obtained for the account before, a decryptTrend
\* or a storeMood started under that account and ending after the change
\* included.
C38_AccountChangeClears ==
    [][/\ client'.address # client.address =>
             /\ client'.moodDates = <<>>
             /\ client'.encryptedTrendHandle = NullCt
             /\ client'.decryptedTrend = 0
             /\ client'.txHash = <<>>
       /\ client'.switches > 0 =>
             /\ client'.decryptedTrend # 0 =>
                   /\ client'.trendOf.address = client'.address
                   /\ Owners(client'.trendOf.handle.h) = {client'.address}
             /\ client'.encryptedTrendHandle # NullCt =>
                   Owners(client'.encryptedTrendHandle.h) = {client'.address}]_vars

\* What holds of the account change: the four fields are cleared in the
\* step of the change, and the handle the hook holds is always one of the
\* connected account, also after a storeMood of the account before ends.
AccountChangeClearsNow ==
    [][/\ client'.address # client.address =>
             /\ client'.moodDates = <<>>
             /\ client'.encryptedTrendHandle = NullCt
             /\ client'.decryptedTrend = 0
             /\ client'.txHash = <<>>
       /\ client'.encryptedTrendHandle # NullCt =>
             Owners(client'.encryptedTrendHandle.h) = {client'.address}]_vars

====
